---------------------------- MODULE Spec2Model ----------------------------
(***************************************************************************)
(* Event Scout: the discovery / enrichment pipeline of src/App.tsx and the *)
(* search gateway of src/services/geminiService.ts as a state machine.     *)
(*                                                                         *)
(* JavaScript runs every continuation to completion on one thread.  The    *)
(* variable "sync" names the continuation that is running: while it is not *)
(* "none" no other task (a backend reply, a click) is served.              *)
(*                                                                         *)
(* Strings are sequences of one-character strings, so that toLowerCase,    *)
(* trim, the template literal and btoa are computed and not assumed.       *)
(***************************************************************************)
EXTENDS Integers, Sequences, FiniteSets, Bags, TLC

(***************************************************************************)
(* Characters and strings                                                  *)
(***************************************************************************)
UpperChars == <<"A","B","C","D","E","F","G","H","I","J","K","L","M",
                "N","O","P","Q","R","S","T","U","V","W","X","Y","Z">>
LowerChars == <<"a","b","c","d","e","f","g","h","i","j","k","l","m",
                "n","o","p","q","r","s","t","u","v","w","x","y","z">>
DigitChars == <<"0","1","2","3","4","5","6","7","8","9">>

IndexIn(tbl, c) == IF \E i \in DOMAIN tbl : tbl[i] = c
                   THEN CHOOSE i \in DOMAIN tbl : tbl[i] = c
                   ELSE 0

\* String.prototype.toLowerCase, one character
ToLowerChar(c) == IF IndexIn(UpperChars, c) > 0 THEN LowerChars[IndexIn(UpperChars, c)] ELSE c

\* String.prototype.toLowerCase
ToLowerCase(s) == [i \in DOMAIN s |-> ToLowerChar(s[i])]

IsSpace(c) == c = " "

RECURSIVE TrimStart(_)
TrimStart(s) == IF Len(s) > 0 /\ IsSpace(s[1]) THEN TrimStart(Tail(s)) ELSE s

RECURSIVE TrimEnd(_)
TrimEnd(s) == IF Len(s) > 0 /\ IsSpace(s[Len(s)]) THEN TrimEnd(SubSeq(s, 1, Len(s) - 1)) ELSE s

\* String.prototype.trim
Trim(s) == TrimEnd(TrimStart(s))

\* The byte of an ASCII character; unescape(encodeURIComponent(s)) is the
\* UTF-8 byte string of s, which for ASCII is s itself.
CharCode(c) ==
    IF IndexIn(UpperChars, c) > 0 THEN 64 + IndexIn(UpperChars, c)
    ELSE IF IndexIn(LowerChars, c) > 0 THEN 96 + IndexIn(LowerChars, c)
    ELSE IF IndexIn(DigitChars, c) > 0 THEN 47 + IndexIn(DigitChars, c)
    ELSE IF c = " " THEN 32
    ELSE IF c = "-" THEN 45
    ELSE 63

Utf8Bytes(s) == [i \in DOMAIN s |-> CharCode(s[i])]

Base64Chars == UpperChars \o LowerChars \o DigitChars \o <<"+", "/">>

\* window.btoa over a byte string
RECURSIVE Btoa(_)
Btoa(b) ==
    IF Len(b) = 0 THEN << >>
    ELSE IF Len(b) = 1 THEN
        << Base64Chars[(b[1] \div 4) + 1],
           Base64Chars[((b[1] % 4) * 16) + 1], "=", "=" >>
    ELSE IF Len(b) = 2 THEN
        << Base64Chars[(b[1] \div 4) + 1],
           Base64Chars[((b[1] % 4) * 16) + (b[2] \div 16) + 1],
           Base64Chars[((b[2] % 16) * 4) + 1], "=" >>
    ELSE
        << Base64Chars[(b[1] \div 4) + 1],
           Base64Chars[((b[1] % 4) * 16) + (b[2] \div 16) + 1],
           Base64Chars[((b[2] % 16) * 4) + (b[3] \div 64) + 1],
           Base64Chars[(b[3] % 64) + 1] >> \o Btoa(SubSeq(b, 4, Len(b)))

\* generateEventId: btoa(unescape(encodeURIComponent(`${name.toLowerCase().trim()}-${date}`)))
generateEventIdNoTrim(name, date) == Btoa(Utf8Bytes(ToLowerCase(name) \o <<"-">> \o date))

generateEventId(name, date) == Btoa(Utf8Bytes(Trim(ToLowerCase(name)) \o <<"-">> \o date))

(***************************************************************************)
(* Dates: new Date(s).getTime()                                            *)
(***************************************************************************)
IsDigit(c) == IndexIn(DigitChars, c) > 0
DigitVal(c) == IndexIn(DigitChars, c) - 1

AllDigits(s) == \A i \in DOMAIN s : IsDigit(s[i])

RECURSIVE ParseInt(_)
ParseInt(s) == IF Len(s) = 0 THEN 0
               ELSE 10 * ParseInt(SubSeq(s, 1, Len(s) - 1)) + DigitVal(s[Len(s)])

\* The ISO forms YYYY, YYYY-MM and YYYY-MM-DD parse; anything else drawn here
\* ("TBD") is an Invalid Date.
IsValidDate(s) ==
    \/ Len(s) = 4 /\ AllDigits(s)
    \/ /\ Len(s) = 7 /\ AllDigits(SubSeq(s, 1, 4)) /\ s[5] = "-" /\ AllDigits(SubSeq(s, 6, 7))
       /\ ParseInt(SubSeq(s, 6, 7)) \in 1..12
    \/ /\ Len(s) = 10 /\ AllDigits(SubSeq(s, 1, 4)) /\ s[5] = "-" /\ AllDigits(SubSeq(s, 6, 7))
       /\ s[8] = "-" /\ AllDigits(SubSeq(s, 9, 10))
       /\ ParseInt(SubSeq(s, 6, 7)) \in 1..12 /\ ParseInt(SubSeq(s, 9, 10)) \in 1..28

\* getTime() of a valid date, in days on a 12 x 31 grid (order-preserving;
\* only the sign of a difference is used).
GetTime(s) ==
    LET y == ParseInt(SubSeq(s, 1, 4))
        m == IF Len(s) >= 7 THEN ParseInt(SubSeq(s, 6, 7)) ELSE 1
        d == IF Len(s) >= 10 THEN ParseInt(SubSeq(s, 9, 10)) ELSE 1
    IN  ((y * 12) + (m - 1)) * 31 + (d - 1)

\* The comparator of both merges, as Array.prototype.sort sees it: a NaN
\* result (an Invalid Date on either side) counts as +0.
CompareByStartReversed(a, b) ==
    IF IsValidDate(a.dateStart) /\ IsValidDate(b.dateStart)
    THEN GetTime(b.dateStart) - GetTime(a.dateStart)
    ELSE 0

CompareByStart(a, b) ==
    IF IsValidDate(a.dateStart) /\ IsValidDate(b.dateStart)
    THEN GetTime(a.dateStart) - GetTime(b.dateStart)
    ELSE 0

InsertAt(s, k, x) == SubSeq(s, 1, k - 1) \o <<x>> \o SubSeq(s, k, Len(s))

\* Insertion from the right: x goes after the last element not greater than it.
RECURSIVE LinearPos(_, _, _)
LinearPos(s, x, k) ==
    IF k > 0 /\ CompareByStart(s[k], x) > 0 THEN LinearPos(s, x, k - 1) ELSE k + 1

RECURSIVE LinearInsertionSort(_)
LinearInsertionSort(s) ==
    IF Len(s) <= 1 THEN s
    ELSE LET h == LinearInsertionSort(SubSeq(s, 1, Len(s) - 1))
             x == s[Len(s)]
         IN  InsertAt(h, LinearPos(h, x, Len(h)), x)

\* Binary insertion: order < 0 moves right to mid, otherwise left to mid + 1.
RECURSIVE BinaryPos(_, _, _, _)
BinaryPos(s, x, left, right) ==
    IF left >= right THEN left + 1
    ELSE LET mid == left + ((right - left) \div 2)
         IN  IF CompareByStart(x, s[mid + 1]) < 0
             THEN BinaryPos(s, x, left, mid)
             ELSE BinaryPos(s, x, mid + 1, right)

RECURSIVE BinaryInsertionSort(_)
BinaryInsertionSort(s) ==
    IF Len(s) <= 1 THEN s
    ELSE LET h == BinaryInsertionSort(SubSeq(s, 1, Len(s) - 1))
             x == s[Len(s)]
         IN  InsertAt(h, BinaryPos(h, x, 0, Len(h)), x)

\* Array.prototype.sort: stable; with a comparator that is not consistent (an
\* Invalid Date compares equal to everything) the order is left to the
\* engine, here either insertion scheme.
SortOutcomes(s) == { LinearInsertionSort(s), BinaryInsertionSort(s) }

(***************************************************************************)
(* Taxonomy                                                                *)
(***************************************************************************)
Thailand == "Thailand"
Malaysia == "Malaysia"
Germany == "Germany"

Regions == <<"Asia", "Europe", "Oceania", "Americas", "Africa">>

REGION_MAPPING(region) ==
    CASE region = "Asia" -> <<Thailand, Malaysia, "Singapore", "Indonesia",
                              "Philippines", "Vietnam", "UAE (Dubai)">>
      [] region = "Europe" -> <<Germany, "Europe">>
      [] region = "Oceania" -> <<"Australia">>
      [] region = "Americas" -> << >>
      [] region = "Africa" -> << >>

Range(s) == { s[i] : i \in DOMAIN s }

(***************************************************************************)
(* Bounds and the inputs the environment draws from                        *)
(***************************************************************************)
MaxRuns == 1      \* discovery runs started
MaxDeep == 1      \* deep searches started
MaxDeepAlone == 3 \* deep searches started when no discovery run is made
MaxRunsAlone == 2 \* discovery runs started when nothing else is done

\* The regions and countries the user clicks
ClickRegions == {"Asia", "Americas"}
ClickCountries == {Thailand, Malaysia}

sAb == <<"A", "b">>
sAbVariant == <<"a", "b", " ">>
sC == <<"C">>
sD == <<"D">>
d2024 == <<"2", "0", "2", "4">>
d2025 == <<"2", "0", "2", "5">>
d2026 == <<"2", "0", "2", "6">>
dTBD == <<"T", "B", "D">>

sAcme == <<"A", "c", "m", "e">>
sacme == <<"a", "c", "m", "e">>
sBeta == <<"B", "e", "t", "a">>

NoId == << >>
NoCountry == "none"

\* Raw records of a list-discovery payload
Item(n, d) == [name |-> n, dateStart |-> d]
ItemNoName(d) == [dateStart |-> d]

\* Backend replies to list discovery: Ok(payload) | NotArray | Malformed |
\* BackendError | NoKey (credentials missing)
ListReplies ==
    { [tag |-> "NoKey"], [tag |-> "BackendError"], [tag |-> "Malformed"],
      [tag |-> "NotArray"],
      [tag |-> "Ok", items |-> << >>],
      [tag |-> "Ok", items |-> << Item(sD, d2026), Item(sAb, d2025),
                                  Item(sAbVariant, d2025) >>],
      [tag |-> "Ok", items |-> << Item(sD, dTBD), Item(sC, d2026) >>],
      [tag |-> "Ok", items |-> << ItemNoName(d2025) >>] }

\* Backend replies to shallow enrichment
ShallowReplies ==
    { [tag |-> "NoKey"], [tag |-> "BackendError"], [tag |-> "Malformed"],
      [tag |-> "Ok", data |-> [organizer |-> [name |-> sAcme],
                                exhibitors |-> << [name |-> sBeta] >>]] }

\* Backend replies to deep enrichment (role is any text the backend labels a
\* company with)
DeepReplies ==
    { [tag |-> "NoKey"], [tag |-> "BackendError"], [tag |-> "NotArray"],
      [tag |-> "Ok", items |-> << >>],
      [tag |-> "Ok", items |-> << [name |-> sacme], [name |-> sBeta, role |-> "Media"] >>] }

Company(n, r) == [name |-> n, role |-> r]

\* A stored event, as JSON.stringify writes it
Stored(n, d, c, new, comps) ==
    [id |-> generateEventId(n, d), name |-> n, dateStart |-> d, country |-> c,
     isNew |-> new, companies |-> comps]

\* What localStorage holds under 'asean_events_data' when the page opens:
\* nothing, text that is no JSON, JSON that is no array, or the catalog
\* earlier sessions persisted (a Thailand run whose list held "Ab" and "ab "
\* and whose enrichment of "ab " failed, and a Malaysia run).
InitialBlobs ==
    { [kind |-> "absent"], [kind |-> "corrupt"], [kind |-> "object"],
      [kind |-> "array",
       value |-> << Stored(sAb, d2025, Thailand, TRUE, << Company(sAcme, "Organizer") >>),
                    Stored(sAbVariant, d2025, Thailand, TRUE, << >>),
                    Stored(sC, d2026, Malaysia, TRUE, << Company(sBeta, "Exhibitor") >>) >>] }

\* Venue texts the backend returns with a record (absent: no venueName)
vtBitecHall ==
    << "B", "I", "T", "E", "C", " ", "B", "a", "n", "g", "n", "a", " ", "H",
       "a", "l", "l", " ", "5" >>
vtBitecLower ==
    << "b", "i", "t", "e", "c", " ", "h", "a", "l", "l" >>
vtQueenImpact ==
    << "Q", "u", "e", "e", "n", " ", "o", "f", " ", "I", "M", "P", "A", "C",
       "T" >>
vtUnknown ==
    << "G", "r", "a", "n", "d", " ", "H", "a", "l", "l" >>
vtSpice ==
    << "S", "P", "I", "C", "E", " ", "A", "r", "e", "n", "a" >>
vtPenangSetia ==
    << "p", "e", "n", "a", "n", "g", ",", " ", "s", "e", "t", "i", "a" >>
vtMesseBerlin ==
    << "M", "e", "s", "s", "e", " ", "B", "e", "r", "l", "i", "n" >>
vtKoeln ==
    << "K", "O", "E", "L", "N", "M", "E", "S", "S", "E" >>
vtRai ==
    << "R", "a", "i", " ", "A", "m", "s", "t", "e", "r", "d", "a", "m" >>

VenueItems ==
    { [name |-> sAb] } \cup
    { [name |-> sAb, venueName |-> t] :
        t \in { << >>, vtBitecHall, vtBitecLower, vtQueenImpact, vtUnknown,
                 vtSpice, vtPenangSetia, vtMesseBerlin, vtKoeln,
                 vtRai } }

MatchCountries ==
    { Thailand, Malaysia, Germany, "Singapore", "Indonesia", "Philippines", "Vietnam",
      "UAE (Dubai)", "Australia", "Europe" }

\* Backend replies to email drafting
tHello ==
    << "H", "e", "l", "l", "o" >>
tHi ==
    << "H", "i", " ", "[", "Y", "o", "u", "r", " ", "N", "a", "m", "e", "]" >>

DraftReplies ==
    { [tag |-> "NoKey"], [tag |-> "BackendError"], [tag |-> "Malformed"], [tag |-> "Null"],
      [tag |-> "Ok", data |-> [subject |-> tHello, body |-> tHi]],
      [tag |-> "Ok", data |-> [subject |-> tHello]],
      [tag |-> "Ok", data |-> [body |-> tHi]],
      [tag |-> "Ok", data |-> [subject |-> << >>, body |-> tHi]],
      [tag |-> "Ok", data |-> [subject |-> tHello, body |-> << >>]],
      [tag |-> "Ok", data |-> [other |-> tHi]] }

DraftEventNames == { sAb, sC, << >> }

\* Companies lists and deep-enrichment batches for the dedup/append
MaxListLen == 2

SampleCompanies ==
    { Company(sAcme, "Organizer"), Company(sacme, "Exhibitor"),
      Company(sBeta, "Exhibitor"), Company(sBeta, "Sponsor") }

CompanyLists ==
    UNION { [1..n -> SampleCompanies] : n \in 0..MaxListLen }

\* Names and start dates of list-discovery records for the id computation
sADashB == << "a", "-", "b" >>
sA == << "a" >>
sAbLead == << " ", "A", "B" >>
dC == << "c" >>
dBDashC == << "b", "-", "c" >>

IdNames == { sAb, sAbVariant, sAbLead, sC, sADashB, sA }
IdDates == { d2025, d2026, dTBD, dC, dBDashC }

BaseRecords ==
    { [name |-> n, dateStart |-> d, country |-> c] :
        n \in IdNames, d \in IdDates, c \in {Thailand, Malaysia} }

\* Catalogs and active countries for the export: names with a comma, a quote
\* and a line break; companies with and without email and contact
cThailand ==
    << "T", "h", "a", "i", "l", "a", "n", "d" >>
cMalaysia ==
    << "M", "a", "l", "a", "y", "s", "i", "a" >>
tOrganizer ==
    << "O", "r", "g", "a", "n", "i", "z", "e", "r" >>
tExhibitor ==
    << "E", "x", "h", "i", "b", "i", "t", "o", "r" >>

ExportEvent(n, v, c, comps) ==
    [name |-> n, venue |-> v, dateStart |-> d2025, dateEnd |-> d2026, country |-> c,
     companies |-> comps]

ExportEvents ==
    { ExportEvent(sAb, << "V" >>, cThailand, << >>),
      ExportEvent(<< "C", ",", " ", "d" >>, << "H", "a", "l", "l", " ", "1" >>, cThailand,
                  << [name |-> sAcme, role |-> tOrganizer, email |-> << "a", "@", "b" >>, contact |-> << "+", "6", "6", " ", "2" >>],
                     [name |-> << "B", "\"", "e" >>, role |-> tExhibitor, email |-> << >>] >>),
      ExportEvent(<< "E", "\n", "f" >>, << >>, cMalaysia,
                  << [name |-> sBeta, role |-> tExhibitor, email |-> << >>] >>),
      ExportEvent(sD, << "V" >>, cMalaysia, << >>) }

ExportCatalogs ==
    UNION { [1..n -> ExportEvents] : n \in 0..MaxListLen }

(***************************************************************************)
(* Search gateway                                                          *)
(***************************************************************************)
Has(rec, f) == f \in DOMAIN rec

\* searchEventList: getApiKey throws before the try; a backend or JSON.parse
\* error is rethrown; a payload that is no array gives []; each record is
\* copied with the searched country (name: item.name may be undefined).
searchEventList(country, reply) ==
    IF reply.tag = "NoKey" THEN [threw |-> TRUE, message |-> "API Key not found"]
    ELSE IF reply.tag \in {"BackendError", "Malformed"}
         THEN [threw |-> TRUE, message |-> "backend"]
    ELSE IF reply.tag = "NotArray" THEN [threw |-> FALSE, list |-> << >>]
    ELSE [threw |-> FALSE,
          list |-> [i \in DOMAIN reply.items |->
                      IF Has(reply.items[i], "name")
                      THEN [name |-> reply.items[i].name,
                            dateStart |-> reply.items[i].dateStart,
                            country |-> country]
                      ELSE [dateStart |-> reply.items[i].dateStart,
                            country |-> country]]]

\* enrichEventDetails: getApiKey throws before the try (the promise rejects);
\* every other failure is caught and gives [].
enrichEventDetails(reply) ==
    IF reply.tag = "NoKey" THEN [threw |-> TRUE, companies |-> << >>]
    ELSE IF reply.tag # "Ok" THEN [threw |-> FALSE, companies |-> << >>]
    ELSE LET data == reply.data
             org == IF Has(data, "organizer") /\ Has(data.organizer, "name")
                       /\ data.organizer.name # << >>
                    THEN << Company(data.organizer.name, "Organizer") >>
                    ELSE << >>
             exh == IF Has(data, "exhibitors")
                    THEN [i \in DOMAIN data.exhibitors |->
                            Company(data.exhibitors[i].name, "Exhibitor")]
                    ELSE << >>
         IN  [threw |-> FALSE, companies |-> org \o exh]

\* findExtendedExhibitors: same shape; role: item.role || "Exhibitor"
findExtendedExhibitors(reply) ==
    IF reply.tag = "NoKey" THEN [threw |-> TRUE, companies |-> << >>]
    ELSE IF reply.tag # "Ok" THEN [threw |-> FALSE, companies |-> << >>]
    ELSE [threw |-> FALSE,
          companies |-> [i \in DOMAIN reply.items |->
                           Company(reply.items[i].name,
                                   IF Has(reply.items[i], "role")
                                   THEN reply.items[i].role ELSE "Exhibitor")]]

(***************************************************************************)
(* Venues (geminiService.ts 339-385), the venue filter (52-64) and venue   *)
(* re-matching (105-116)                                                   *)
(***************************************************************************)
VenueImpact ==
    << "I", "m", "p", "a", "c", "t", " ", "A", "r", "e", "n", "a", " ", "&",
       " ", "E", "x", "h", "i", "b", "i", "t", "i", "o", "n", " ", "C", "e",
       "n", "t", "e", "r" >>
VenueBitec ==
    << "B", "I", "T", "E", "C", " ", "B", "a", "n", "g", "n", "a" >>
VenueQsncc ==
    << "Q", "u", "e", "e", "n", " ", "S", "i", "r", "i", "k", "i", "t", " ",
       "N", "a", "t", "i", "o", "n", "a", "l", " ", "C", "o", "n", "v", "e",
       "n", "t", "i", "o", "n", " ", "C", "e", "n", "t", "e", "r", " ", "(",
       "Q", "S", "N", "C", "C", ")" >>
VenueKlcc ==
    << "K", "u", "a", "l", "a", " ", "L", "u", "m", "p", "u", "r", " ", "C",
       "o", "n", "v", "e", "n", "t", "i", "o", "n", " ", "C", "e", "n", "t",
       "r", "e", " ", "(", "K", "L", "C", "C", ")" >>
VenueMitec ==
    << "M", "I", "T", "E", "C" >>
VenueSpice ==
    << "S", "e", "t", "i", "a", " ", "S", "P", "I", "C", "E", " ", "C", "o",
       "n", "v", "e", "n", "t", "i", "o", "n", " ", "C", "e", "n", "t", "r",
       "e" >>
VenuePwcc ==
    << "P", "e", "n", "a", "n", "g", " ", "W", "a", "t", "e", "r", "f", "r",
       "o", "n", "t", " ", "C", "o", "n", "v", "e", "n", "t", "i", "o", "n",
       " ", "C", "e", "n", "t", "r", "e", " ", "(", "P", "W", "C", "C", ")" >>
VenueExpo ==
    << "S", "i", "n", "g", "a", "p", "o", "r", "e", " ", "E", "X", "P", "O" >>
VenueMbs ==
    << "M", "a", "r", "i", "n", "a", " ", "B", "a", "y", " ", "S", "a", "n",
       "d", "s", " ", "C", "o", "n", "v", "e", "n", "t", "i", "o", "n", " ",
       "C", "e", "n", "t", "r", "e" >>
VenueJcc ==
    << "J", "a", "k", "a", "r", "t", "a", " ", "C", "o", "n", "v", "e", "n",
       "t", "i", "o", "n", " ", "C", "e", "n", "t", "e", "r" >>
VenueJiexpo ==
    << "J", "a", "k", "a", "r", "t", "a", " ", "I", "n", "t", "e", "r", "n",
       "a", "t", "i", "o", "n", "a", "l", " ", "E", "x", "p", "o", " ", "(",
       "J", "I", "E", "x", "p", "o", ")" >>
VenueIce ==
    << "I", "n", "d", "o", "n", "e", "s", "i", "a", " ", "C", "o", "n", "v",
       "e", "n", "t", "i", "o", "n", " ", "E", "x", "h", "i", "b", "i", "t",
       "i", "o", "n", " ", "(", "I", "C", "E", " ", "B", "S", "D", ")" >>
VenueSmx ==
    << "S", "M", "X", " ", "C", "o", "n", "v", "e", "n", "t", "i", "o", "n",
       " ", "C", "e", "n", "t", "e", "r" >>
VenueWtcManila ==
    << "W", "o", "r", "l", "d", " ", "T", "r", "a", "d", "e", " ", "C", "e",
       "n", "t", "e", "r", " ", "M", "e", "t", "r", "o", " ", "M", "a", "n",
       "i", "l", "a" >>
VenueSecc ==
    << "S", "a", "i", "g", "o", "n", " ", "E", "x", "h", "i", "b", "i", "t",
       "i", "o", "n", " ", "a", "n", "d", " ", "C", "o", "n", "v", "e", "n",
       "t", "i", "o", "n", " ", "C", "e", "n", "t", "e", "r", " ", "(", "S",
       "E", "C", "C", ")" >>
VenueIceHanoi ==
    << "I", "n", "t", "e", "r", "n", "a", "t", "i", "o", "n", "a", "l", " ",
       "C", "e", "n", "t", "r", "e", " ", "f", "o", "r", " ", "E", "x", "h",
       "i", "b", "i", "t", "i", "o", "n", " ", "(", "I", ".", "C", ".", "E",
       " ", ")", " ", "H", "a", "n", "o", "i" >>
VenueDwtc ==
    << "D", "u", "b", "a", "i", " ", "W", "o", "r", "l", "d", " ", "T", "r",
       "a", "d", "e", " ", "C", "e", "n", "t", "r", "e" >>
VenueMesseFrankfurt ==
    << "M", "e", "s", "s", "e", " ", "F", "r", "a", "n", "k", "f", "u", "r",
       "t" >>
VenueMesseBerlin ==
    << "M", "e", "s", "s", "e", " ", "B", "e", "r", "l", "i", "n" >>
VenueMesseMunchen ==
    << "M", "e", "s", "s", "e", " ", "M", "ü", "n", "c", "h", "e", "n" >>
VenueKoelnmesse ==
    << "K", "o", "e", "l", "n", "m", "e", "s", "s", "e" >>
VenueIccSydney ==
    << "I", "C", "C", " ", "S", "y", "d", "n", "e", "y" >>
VenueMcec ==
    << "M", "e", "l", "b", "o", "u", "r", "n", "e", " ", "C", "o", "n", "v",
       "e", "n", "t", "i", "o", "n", " ", "a", "n", "d", " ", "E", "x", "h",
       "i", "b", "i", "t", "i", "o", "n", " ", "C", "e", "n", "t", "r", "e" >>
VenueFiraBarcelona ==
    << "F", "i", "r", "a", " ", "B", "a", "r", "c", "e", "l", "o", "n", "a" >>
VenueParisNord ==
    << "P", "a", "r", "i", "s", " ", "N", "o", "r", "d", " ", "V", "i", "l",
       "l", "e", "p", "i", "n", "t", "e" >>
VenueRaiAmsterdam ==
    << "R", "A", "I", " ", "A", "m", "s", "t", "e", "r", "d", "a", "m" >>

\* Object.values(Venue): the enumeration order
Venue ==
    << VenueImpact, VenueBitec, VenueQsncc, VenueKlcc,
       VenueMitec, VenueSpice, VenuePwcc, VenueExpo,
       VenueMbs, VenueJcc, VenueJiexpo, VenueIce,
       VenueSmx, VenueWtcManila, VenueSecc, VenueIceHanoi,
       VenueDwtc, VenueMesseFrankfurt, VenueMesseBerlin, VenueMesseMunchen,
       VenueKoelnmesse, VenueIccSydney, VenueMcec, VenueFiraBarcelona,
       VenueParisNord, VenueRaiAmsterdam >>


\* String.prototype.includes
Includes(hay, needle) ==
    \E k \in 0..(Len(hay) - Len(needle)) : SubSeq(hay, k + 1, k + Len(needle)) = needle

\* The fragments of the filter, per country (lines 53-62); no fragment for
\* any other value
VenueKeywords(country) ==
    CASE country = Thailand ->
          { << "I", "m", "p", "a", "c", "t" >>,
            << "B", "I", "T", "E", "C" >>,
            << "Q", "u", "e", "e", "n", " ", "S", "i", "r", "i", "k", "i", "t" >> }
      [] country = Malaysia ->
          { << "K", "u", "a", "l", "a", " ", "L", "u", "m", "p", "u", "r" >>,
            << "M", "I", "T", "E", "C" >>,
            << "S", "P", "I", "C", "E" >>,
            << "P", "e", "n", "a", "n", "g" >> }
      [] country = "Singapore" ->
          { << "S", "i", "n", "g", "a", "p", "o", "r", "e", " ", "E", "X", "P", "O" >>,
            << "M", "a", "r", "i", "n", "a", " ", "B", "a", "y" >> }
      [] country = "Indonesia" ->
          { << "J", "a", "k", "a", "r", "t", "a" >>,
            << "I", "n", "d", "o", "n", "e", "s", "i", "a", " ", "C", "o", "n", "v", "e", "n", "t", "i", "o", "n" >> }
      [] country = "Philippines" ->
          { << "S", "M", "X" >>,
            << "W", "o", "r", "l", "d", " ", "T", "r", "a", "d", "e", " ", "C", "e", "n", "t", "e", "r" >> }
      [] country = "Vietnam" ->
          { << "S", "a", "i", "g", "o", "n" >>,
            << "H", "a", "n", "o", "i" >> }
      [] country = "UAE (Dubai)" ->
          { << "D", "u", "b", "a", "i" >> }
      [] country = Germany ->
          { << "M", "e", "s", "s", "e" >>,
            << "K", "o", "e", "l", "n", "m", "e", "s", "s", "e" >> }
      [] country = "Australia" ->
          { << "S", "y", "d", "n", "e", "y" >>,
            << "M", "e", "l", "b", "o", "u", "r", "n", "e" >> }
      [] country = "Europe" ->
          { << "F", "i", "r", "a" >>,
            << "P", "a", "r", "i", "s" >>,
            << "R", "A", "I" >>,
            << "M", "e", "s", "s", "e" >> }
      [] OTHER -> {}

\* Object.values(Venue).filter(v => ...)
VenuesFor(country) ==
    SelectSeq(Venue, LAMBDA v : \E kw \in VenueKeywords(country) : Includes(v, kw))

\* v.toLowerCase().split(' ')[0]
FirstWordWholeName(lowered) == lowered

FirstWord(lowered) ==
    IF \E k \in DOMAIN lowered : lowered[k] = " "
    THEN SubSeq(lowered, 1, (CHOOSE k \in DOMAIN lowered :
                                /\ lowered[k] = " "
                                /\ \A j \in 1..(k - 1) : lowered[j] # " ") - 1)
    ELSE lowered

\* for (const v of venues) { if (item.venueName && ...includes(...)) {
\* matchedVenue = v; break; } }
RECURSIVE MatchFrom(_, _, _, _)
MatchFrom(venues, item, k, matched) ==
    IF k > Len(venues) THEN matched
    ELSE IF /\ Has(item, "venueName")
            /\ item.venueName # << >>
            /\ Includes(ToLowerCase(item.venueName), FirstWord(ToLowerCase(venues[k])))
         THEN venues[k]
         ELSE MatchFrom(venues, item, k + 1, matched)

\* let matchedVenue = venues[0]; ... (lines 107-116)
matchedVenue(country, item) ==
    LET venues == VenuesFor(country)
    IN  MatchFrom(venues, item, 1, venues[1])

\* draftEmailContent (lines 280-325): getApiKey throws before the try; inside
\* the try a backend error, a payload that is no JSON, or a null payload
\* (data.subject throws) reaches the catch, which returns the template.
tInquiryColon ==
    << "I", "n", "q", "u", "i", "r", "y", ":", " " >>
tCouldNot ==
    << "C", "o", "u", "l", "d", " ", "n", "o", "t", " ", "g", "e", "n", "e",
       "r", "a", "t", "e", " ", "d", "r", "a", "f", "t", "." >>
tInquiryRegarding ==
    << "I", "n", "q", "u", "i", "r", "y", " ", "r", "e", "g", "a", "r", "d",
       "i", "n", "g", " " >>
tDearTeam ==
    << "D", "e", "a", "r", " ", "T", "e", "a", "m", ",", "\n", "\n", "I", " ",
       "a", "m", " ", "w", "r", "i", "t", "i", "n", "g", " ", "t", "o", " ",
       "i", "n", "q", "u", "i", "r", "e", " ", "a", "b", "o", "u", "t", " " >>
tBestRegards ==
    << ".", "\n", "\n", "B", "e", "s", "t", " ", "r", "e", "g", "a", "r", "d",
       "s", ",", "\n", "[", "Y", "o", "u", "r", " ", "N", "a", "m", "e", "]" >>

\* x || fallback on a string property that may be missing
OrElse(rec, f, fallback) ==
    IF Has(rec, f) /\ rec[f] # << >> THEN rec[f] ELSE fallback

\* The catch block (lines 318-323)
FallbackDraftNoName(eventName) ==
    [threw |-> FALSE,
     subject |-> tInquiryRegarding,
     body |-> tDearTeam \o tBestRegards]

FallbackDraft(eventName) ==
    [threw |-> FALSE,
     subject |-> tInquiryRegarding \o eventName,
     body |-> tDearTeam \o eventName \o tBestRegards]

draftEmailContent(eventName, reply) ==
    IF reply.tag = "NoKey" THEN [threw |-> TRUE]
    ELSE IF reply.tag \in {"BackendError", "Malformed", "Null"} THEN FallbackDraft(eventName)
    ELSE [threw |-> FALSE,
          subject |-> OrElse(reply.data, "subject", tInquiryColon \o eventName),
          body |-> OrElse(reply.data, "body", tCouldNot)]

(***************************************************************************)
(* handleExportCSV (App.tsx 38-46, 210-248)                                *)
(***************************************************************************)
\* An optional field: undefined and "" are both falsy
Field(rec, f) == IF Has(rec, f) THEN rec[f] ELSE << >>

\* str.replace(/"/g, '""')
DoubleQuotes(s) ==
    LET RECURSIVE Go(_)
        Go(k) == IF k > Len(s) THEN << >>
                 ELSE (IF s[k] = "\"" THEN << "\"", "\"" >> ELSE << s[k] >>) \o Go(k + 1)
    IN  Go(1)

escapeCsv(str) ==
    IF str = << >> THEN << >>
    ELSE IF \E k \in DOMAIN str : str[k] \in { ",", "\"", "\n" }
         THEN << "\"" >> \o DoubleQuotes(str) \o << "\"" >>
         ELSE str

\* Array.prototype.join
Join(parts, sep) ==
    LET RECURSIVE Go(_)
        Go(k) == IF k > Len(parts) THEN << >>
                 ELSE IF k = Len(parts) THEN parts[k]
                 ELSE parts[k] \o sep \o Go(k + 1)
    IN  Go(1)

headers ==
    << << "E", "v", "e", "n", "t", " ", "N", "a", "m", "e" >>,
       << "V", "e", "n", "u", "e" >>,
       << "S", "t", "a", "r", "t", " ", "D", "a", "t", "e" >>,
       << "E", "n", "d", " ", "D", "a", "t", "e" >>,
       << "C", "o", "u", "n", "t", "r", "y" >>,
       << "C", "o", "m", "p", "a", "n", "y", " ", "N", "a", "m", "e" >>,
       << "R", "o", "l", "e" >>,
       << "E", "m", "a", "i", "l" >>,
       << "C", "o", "n", "t", "a", "c", "t" >> >>

tNA == << "\"", "N", "/", "A", "\"" >>

\* The five descriptive columns of an event's rows, escaped
EventColumns(event) ==
    << escapeCsv(Field(event, "name")), escapeCsv(Field(event, "venue")),
       escapeCsv(Field(event, "dateStart")), escapeCsv(Field(event, "dateEnd")),
       escapeCsv(Field(event, "country")) >>

\* The rows pushed for one event (lines 221-233)
EventRowsNoPlaceholder(event) ==
    [i \in DOMAIN event.companies |->
        Join(EventColumns(event) \o
             << escapeCsv(Field(event.companies[i], "name")),
                escapeCsv(Field(event.companies[i], "role")),
                escapeCsv(Field(event.companies[i], "email")),
                escapeCsv(Field(event.companies[i], "contact")) >>, << "," >>)]

EventRows(event) ==
    IF Len(event.companies) = 0
    THEN << Join(EventColumns(event) \o << tNA, tNA, tNA, tNA >>, << "," >>) >>
    ELSE [i \in DOMAIN event.companies |->
            Join(EventColumns(event) \o
                 << escapeCsv(Field(event.companies[i], "name")),
                    escapeCsv(Field(event.companies[i], "role")),
                    escapeCsv(Field(event.companies[i], "email")),
                    escapeCsv(Field(event.companies[i], "contact")) >>, << "," >>)]

RECURSIVE ExportRows(_)
ExportRows(evs) ==
    IF Len(evs) = 0 THEN << >> ELSE EventRows(Head(evs)) \o ExportRows(Tail(evs))

\* The alert and return of lines 213-216, or the rows and the text of the file
\* (line 236)
handleExportCSV(evs, country) ==
    LET filteredEvents == SelectSeq(evs, LAMBDA e : e.country = country)
    IN  IF Len(filteredEvents) = 0
        THEN [alerted |-> TRUE, rows |-> << >>, csvContent |-> << >>]
        ELSE LET rows == ExportRows(filteredEvents)
             IN  [alerted |-> FALSE,
                  rows |-> rows,
                  csvContent |-> Join(<< Join(headers, << "," >>) >> \o rows, << "\n" >>)]

(***************************************************************************)
(* State                                                                   *)
(***************************************************************************)
VARIABLES
    mounted,          \* the mount effect has run
    storage,          \* localStorage 'asean_events_data'
    activeRegion, activeCountry,
    events,           \* the catalog in memory; ref > 0: the entry is the object
                      \* mergedEvents[ref] of the run in flight
    loading, progress, error, searchingId,
    pc,               \* handleSearch: "idle", "awaitList", "enriching", "done"
    sync,             \* the continuation running now: "none", a worker, "join"
    runCountry,       \* activeCountry captured by handleSearch
    closureEvents,    \* events captured by handleSearch
    mergedEvents, processQueue, processedCount,
    worker,           \* per worker: [st, ev]
    deep,             \* the deep searches in flight: a bag of event ids
    \* bookkeeping for the properties
    lastStep, listOutcome, prevEvents, p1Companies, popCount, enrichCalls,
    enrichResult,     \* per fresh event: what its enrichEventDetails call returned
    enrichFailed, runs, deepStarted,
    probe             \* a gateway or helper function applied on its own: [fn, ..., out]

vars == << mounted, storage, activeRegion, activeCountry, events, loading,
           progress, error, searchingId, pc, sync, runCountry, closureEvents,
           mergedEvents, processQueue, processedCount, worker, deep,
           lastStep, listOutcome, prevEvents, p1Companies, popCount, enrichCalls,
           enrichResult, enrichFailed, runs, deepStarted, probe >>

uiVars == << activeRegion, activeCountry >>
runVars == << pc, runCountry, closureEvents, mergedEvents, processQueue,
              processedCount, worker >>
histVars == << listOutcome, prevEvents, p1Companies, popCount, enrichCalls,
              enrichResult, enrichFailed >>

concurrencyFour == 3 + 1

concurrency == 3
Workers == 1..concurrency

NoProbe == [fn |-> "none"]

NoTask == [task |-> "none", w |-> 0]
WorkerTask(w) == [task |-> "worker", w |-> w]
JoinTask == [task |-> "join", w |-> 0]

\* JSON.stringify / JSON.parse of the catalog: values only
Json(evs) == [k \in DOMAIN evs |-> [f \in (DOMAIN evs[k]) \ {"ref"} |-> evs[k][f]]]
InMemory(evs) == [k \in DOMAIN evs |-> [f \in (DOMAIN evs[k]) \cup {"ref"} |->
                                          IF f = "ref" THEN 0 ELSE evs[k][f]]]

Ids(evs) == { evs[k].id : k \in DOMAIN evs }

MainInit ==
    /\ mounted = FALSE
    /\ storage \in InitialBlobs
    /\ activeRegion = "Asia"
    /\ activeCountry = Thailand
    /\ events = << >>
    /\ loading = FALSE
    /\ progress = << 0, 1 >>
    /\ error = "null"
    /\ searchingId = NoId
    /\ pc = "idle"
    /\ sync = NoTask
    /\ runCountry = NoCountry
    /\ closureEvents = << >>
    /\ mergedEvents = << >>
    /\ processQueue = << >>
    /\ processedCount = 0
    /\ worker = [w \in Workers |-> [st |-> "unstarted", ev |-> 0]]
    /\ deep = EmptyBag
    /\ lastStep = "init"
    /\ listOutcome = "none"
    /\ prevEvents = << >>
    /\ p1Companies = << >>
    /\ popCount = << >>
    /\ enrichCalls = << >>
    /\ enrichResult = << >>
    /\ enrichFailed = {}
    /\ runs = 0
    /\ deepStarted = 0

Init ==
    /\ MainInit
    /\ probe = NoProbe

\* No continuation is running and the page is mounted: the next task is served
Quiet == mounted /\ sync = NoTask

(***************************************************************************)
(* Startup (App.tsx 60-73)                                                 *)
(***************************************************************************)
LoadSavedNothing(blob) == << >>

LoadSaved(blob) == IF blob.kind = "array" THEN InMemory(blob.value) ELSE << >>

Mount ==
    /\ ~mounted
    /\ mounted' = TRUE
    /\ events' = LoadSaved(storage)
    /\ lastStep' = "mount"
    /\ UNCHANGED << probe, storage, uiVars, loading, progress, error, searchingId, sync,
                    runVars, deep, histVars, runs, deepStarted >>

(***************************************************************************)
(* Region and country selection (App.tsx 75-84, 316-320)                   *)
(***************************************************************************)
\* The handler's effect on the component state
RegionChangeKeepCountry(region) ==
    /\ Quiet
    /\ IF loading \/ Len(REGION_MAPPING(region)) = 0
       THEN UNCHANGED uiVars
       ELSE /\ activeRegion' = region
            /\ activeCountry' = activeCountry
    /\ UNCHANGED << lastStep, mounted, storage, events, loading, progress, error, searchingId,
                    sync, runVars, deep, histVars, runs, deepStarted >>

RegionChange(region) ==
    /\ Quiet
    /\ IF loading \/ Len(REGION_MAPPING(region)) = 0
       THEN UNCHANGED uiVars
       ELSE /\ activeRegion' = region
            /\ activeCountry' = REGION_MAPPING(region)[1]
    /\ UNCHANGED << lastStep, mounted, storage, events, loading, progress, error, searchingId,
                    sync, runVars, deep, histVars, runs, deepStarted >>

handleRegionChange(region) ==
    /\ region \in ClickRegions
    /\ RegionChange(region)
    /\ UNCHANGED probe

CountryChangeWhileLoading(country) ==
    /\ Quiet
    /\ country \in Range(REGION_MAPPING(activeRegion))
    /\ activeCountry' = country
    /\ UNCHANGED << lastStep, mounted, storage, activeRegion, events, loading, progress, error,
                    searchingId, sync, runVars, deep, histVars, runs, deepStarted >>

\* A country button of the active region (disabled while loading)
CountryChange(country) ==
    /\ Quiet
    /\ country \in Range(REGION_MAPPING(activeRegion))
    /\ ~loading
    /\ activeCountry' = country
    /\ UNCHANGED << lastStep, mounted, storage, activeRegion, events, loading, progress, error,
                    searchingId, sync, runVars, deep, histVars, runs, deepStarted >>

SelectCountry(country) ==
    /\ country \in ClickCountries
    /\ CountryChange(country)
    /\ UNCHANGED probe

(***************************************************************************)
(* handleSearch (App.tsx 86-176)                                           *)
(***************************************************************************)
handleSearch ==
    /\ Quiet
    /\ ~loading
    /\ pc = "idle"
    /\ runs' = runs + 1
    /\ loading' = TRUE
    /\ progress' = << 0, 1 >>
    /\ error' = "null"
    /\ pc' = "awaitList"
    /\ runCountry' = activeCountry
    /\ closureEvents' = events
    /\ mergedEvents' = << >>
    /\ processQueue' = << >>
    /\ processedCount' = 0
    /\ worker' = [w \in Workers |-> [st |-> "unstarted", ev |-> 0]]
    /\ lastStep' = "start"
    /\ listOutcome' = "none"
    /\ prevEvents' = << >>
    /\ p1Companies' = << >>
    /\ popCount' = << >>
    /\ enrichCalls' = << >>
    /\ enrichResult' = << >>
    /\ enrichFailed' = {}
    /\ UNCHANGED << mounted, probe, storage, uiVars, events, searchingId, sync, deep,
                    deepStarted >>

StartSearch ==
    /\ runs < MaxRuns
    /\ handleSearch

\* What the backend's reply amounts to for the run
ListOutcome(r) ==
    IF r.threw THEN "threw"
    ELSE IF Len(r.list) = 0 THEN "empty"
    ELSE IF \E i \in DOMAIN r.list : ~Has(r.list[i], "name") THEN "badItem"
    ELSE "ok"

\* The run's catch block is entered before Phase 1: searchEventList rejected,
\* basicList.length === 0 throws, or name.toLowerCase() throws on a record
\* without a name.
DiscoveryFailsEmptyAccepted(r) ==
    IF r.threw THEN TRUE
    ELSE \E i \in DOMAIN r.list : ~Has(r.list[i], "name")

DiscoveryFails(r) ==
    IF r.threw THEN TRUE
    ELSE \/ Len(r.list) = 0
         \/ \E i \in DOMAIN r.list : ~Has(r.list[i], "name")

FailureMessage(r) ==
    IF r.threw THEN r.message
    ELSE IF Len(r.list) = 0 THEN "No events found. Please try again."
    ELSE "TypeError"

\* new Map(events.map(e => [e.id, e])).get(id): the last entry with the id
Lookup(evs, id) ==
    LET ks == { k \in DOMAIN evs : evs[k].id = id }
    IN  evs[CHOOSE k \in ks : \A j \in ks : j <= k]

\* basicList.map(base => ...) (lines 106-118), one record; i is its position
\* in mergedEvents
MergeFreshAlwaysNew(base, known, i) ==
    LET id == generateEventId(base.name, base.dateStart)
    IN  [id |-> id, name |-> base.name, dateStart |-> base.dateStart,
         country |-> base.country,
         isNew |-> TRUE,
         companies |-> IF id \in Ids(known) THEN Lookup(known, id).companies ELSE << >>,
         ref |-> i]

MergeFresh(base, known, i) ==
    LET id == generateEventId(base.name, base.dateStart)
    IN  [id |-> id, name |-> base.name, dateStart |-> base.dateStart,
         country |-> base.country,
         isNew |-> ~(id \in Ids(known)),
         companies |-> IF id \in Ids(known) THEN Lookup(known, id).companies ELSE << >>,
         ref |-> i]

\* prev.filter(e => e.country !== activeCountry)
OtherCountriesKeepAll(prev, country) == prev

OtherCountriesDropAll(prev, country) == << >>

OtherCountries(prev, country) == SelectSeq(prev, LAMBDA e : e.country # country)

Detach(evs) == [k \in DOMAIN evs |-> [evs[k] EXCEPT !.ref = 0]]

RECURSIVE Gcd(_, _)
Gcd(a, b) == IF b = 0 THEN a ELSE Gcd(b, a % b)

\* 20 + ((processedCount / totalToProcess) * 80), as a fraction in lowest terms
FractionNoBase(done, total) ==
    LET num == 80 * done
        g == Gcd(num, total)
    IN  << num \div g, total \div g >>

FractionRemaining(done, total) ==
    LET num == (20 * total) + (80 * (total - done))
        g == Gcd(num, total)
    IN  << num \div g, total \div g >>

Fraction(done, total) ==
    LET num == (20 * total) + (80 * done)
        g == Gcd(num, total)
    IN  << num \div g, total \div g >>

ListDiscoveryAbortStillLoading(reply) ==
    /\ Quiet
    /\ pc = "awaitList"
    /\ LET r == searchEventList(runCountry, reply)
       IN  /\ DiscoveryFails(r)
           /\ error' = "Search failed: " \o FailureMessage(r)
           /\ listOutcome' = ListOutcome(r)
    /\ pc' = "idle"
    /\ closureEvents' = << >>
    /\ runCountry' = NoCountry
    /\ lastStep' = "abort"
    /\ UNCHANGED << mounted, probe, storage, uiVars, events, loading, progress, searchingId, sync,
                    mergedEvents, processQueue,
                    processedCount, worker, deep, prevEvents, p1Companies, popCount,
                    enrichCalls, enrichResult, enrichFailed, runs, deepStarted >>

\* The catch of handleSearch (lines 172-175)
ListDiscoveryAbort(reply) ==
    /\ Quiet
    /\ pc = "awaitList"
    /\ LET r == searchEventList(runCountry, reply)
       IN  /\ DiscoveryFails(r)
           /\ error' = "Search failed: " \o FailureMessage(r)
           /\ listOutcome' = ListOutcome(r)
    /\ loading' = FALSE
    /\ pc' = "idle"
    /\ closureEvents' = << >>
    /\ runCountry' = NoCountry
    /\ lastStep' = "abort"
    /\ UNCHANGED << mounted, probe, storage, uiVars, events, progress, searchingId, sync,
                    mergedEvents, processQueue,
                    processedCount, worker, deep, prevEvents, p1Companies, popCount,
                    enrichCalls, enrichResult, enrichFailed, runs, deepStarted >>

\* Lines 100-133 and 157: the provisional merge, the queue, and the three
\* worker() calls about to be made
Phase1Merge(reply) ==
    /\ Quiet
    /\ pc = "awaitList"
    /\ LET r == searchEventList(runCountry, reply)
       IN  /\ ~DiscoveryFails(r)
           /\ listOutcome' = ListOutcome(r)
           /\ LET merged == [i \in DOMAIN r.list |-> MergeFresh(r.list[i], closureEvents, i)]
                  others == Detach(OtherCountries(events, runCountry))
              IN  /\ mergedEvents' = merged
                  /\ events' \in SortOutcomes(others \o merged)
                  /\ processQueue' = [i \in DOMAIN merged |-> i]
                  /\ p1Companies' = [i \in DOMAIN merged |-> merged[i].companies]
                  /\ popCount' = [i \in DOMAIN merged |-> 0]
                  /\ enrichCalls' = [i \in DOMAIN merged |-> 0]
                  /\ enrichResult' = [i \in DOMAIN merged |-> << >>]
    /\ progress' = << 20, 1 >>
    /\ processedCount' = 0
    /\ prevEvents' = Json(events)
    /\ enrichFailed' = {}
    /\ closureEvents' = << >>
    /\ pc' = "enriching"
    /\ sync' = WorkerTask(1)
    /\ lastStep' = "phase1"
    /\ UNCHANGED << mounted, probe, storage, uiVars, loading, error, searchingId, runCountry,
                    worker, deep, runs, deepStarted >>

\* if (event.companies.length === 0) (line 142)
NeedsEnrichmentAlways(event) == TRUE

NeedsEnrichment(event) == Len(event.companies) = 0

\* One worker's loop from its top until it suspends on enrichEventDetails or
\* finds the queue empty: [queue, popped, await]
RECURSIVE RunLoop(_, _)
RunLoop(q, popped) ==
    IF Len(q) = 0 THEN [queue |-> q, popped |-> popped, await |-> 0]
    ELSE IF NeedsEnrichment(mergedEvents[Head(q)])
         THEN [queue |-> Tail(q), popped |-> Append(popped, Head(q)), await |-> Head(q)]
         ELSE RunLoop(Tail(q), Append(popped, Head(q)))

Count(s, x) == Cardinality({ i \in DOMAIN s : s[i] = x })

\* await Promise.all(workers) (line 158): resumes when every worker() promise
\* has settled
AllSettledAny(wk) == \E v \in Workers : wk[v].st = "done"

AllSettled(wk) == \A v \in Workers : wk[v].st = "done"

WorkerRun(w) ==
    /\ mounted
    /\ sync = WorkerTask(w)
    /\ LET r == RunLoop(processQueue, << >>)
           skipped == Len(r.popped) - (IF r.await > 0 THEN 1 ELSE 0)
           wk == [worker EXCEPT ![w] = IF r.await > 0
                                       THEN [st |-> "awaiting", ev |-> r.await]
                                       ELSE [st |-> "done", ev |-> 0]]
       IN  /\ processQueue' = r.queue
           /\ processedCount' = processedCount + skipped
           /\ progress' = IF skipped > 0
                          THEN Fraction(processedCount + skipped, Len(mergedEvents))
                          ELSE progress
           /\ worker' = wk
           /\ popCount' = [i \in DOMAIN popCount |-> popCount[i] + Count(r.popped, i)]
           /\ enrichCalls' = [i \in DOMAIN enrichCalls |->
                                enrichCalls[i] + (IF i = r.await THEN 1 ELSE 0)]
           /\ sync' = IF w < concurrency /\ wk[w + 1].st = "unstarted"
                      THEN WorkerTask(w + 1)
                      ELSE IF AllSettled(wk)
                      THEN JoinTask
                      ELSE NoTask
    /\ lastStep' = "worker"
    /\ prevEvents' = << >>
    /\ UNCHANGED << mounted, probe, storage, uiVars, events, loading, error, searchingId, pc,
                    runCountry, closureEvents, mergedEvents, deep, listOutcome,
                    p1Companies, enrichResult, enrichFailed, runs, deepStarted >>

\* try { event.companies = await enrichEventDetails(...) } catch (e) { warn }
WorkerOutcomeRethrows(event, r) ==
    [companies |-> IF r.threw THEN event.companies ELSE r.companies,
     rethrown |-> r.threw]

WorkerOutcome(event, r) ==
    [companies |-> IF r.threw THEN event.companies ELSE r.companies,
     rethrown |-> FALSE]

\* The reply to a worker's enrichEventDetails call arrives (lines 144-153)
EnrichReturn(w, reply) ==
    /\ Quiet
    /\ worker[w].st = "awaiting"
    /\ LET e == worker[w].ev
           r == enrichEventDetails(reply)
           o == WorkerOutcome(mergedEvents[e], r)
       IN  IF o.rethrown
           THEN /\ error' = "Search failed: " \o "API Key not found"
                /\ loading' = FALSE
                /\ pc' = "idle"
                /\ worker' = [worker EXCEPT ![w] = [st |-> "done", ev |-> 0]]
                /\ UNCHANGED << mergedEvents, events, processedCount, progress, sync >>
           ELSE /\ mergedEvents' = [mergedEvents EXCEPT ![e].companies = o.companies]
                /\ events' = [k \in DOMAIN events |->
                                IF events[k].ref = e
                                THEN [events[k] EXCEPT !.companies = o.companies]
                                ELSE events[k]]
                /\ processedCount' = processedCount + 1
                /\ progress' = Fraction(processedCount + 1, Len(mergedEvents))
                /\ worker' = [worker EXCEPT ![w] = [st |-> "running", ev |-> 0]]
                /\ sync' = WorkerTask(w)
                /\ UNCHANGED << error, loading, pc >>
    /\ enrichFailed' = IF reply.tag = "Ok" THEN enrichFailed ELSE enrichFailed \cup {worker[w].ev}
    /\ enrichResult' = [enrichResult EXCEPT ![worker[w].ev] = enrichEventDetails(reply).companies]
    /\ lastStep' = "enrich"
    /\ UNCHANGED << mounted, probe, storage, uiVars, searchingId, runCountry, closureEvents,
                    processQueue, deep, listOutcome, prevEvents, p1Companies, popCount,
                    enrichCalls, runs, deepStarted >>

\* localStorage.setItem('asean_events_data', JSON.stringify(evs))
PersistNothing(evs) == storage

Persist(evs) == [kind |-> "array", value |-> Json(evs)]

\* After Promise.all: the final merge and the write (lines 160-170)
Phase2Merge ==
    /\ mounted
    /\ sync = JoinTask
    /\ pc = "enriching"
    /\ \E final \in SortOutcomes(OtherCountries(events, runCountry) \o mergedEvents) :
          /\ events' = Detach(final)
          /\ storage' = Persist(final)
    /\ prevEvents' = Json(events)
    /\ pc' = "done"
    /\ sync' = NoTask
    /\ lastStep' = "phase2"
    /\ UNCHANGED << mounted, probe, uiVars, loading, progress, error, searchingId, runCountry,
                    closureEvents, mergedEvents, processQueue, processedCount, worker,
                    deep, listOutcome, p1Companies, popCount, enrichCalls, enrichResult, enrichFailed,
                    runs, deepStarted >>

\* setTimeout(() => setLoading(false), 500)
LoadingTimer ==
    /\ Quiet
    /\ pc = "done"
    /\ loading' = FALSE
    /\ pc' = "idle"
    /\ mergedEvents' = << >>
    /\ processedCount' = 0
    /\ worker' = [w \in Workers |-> [st |-> "unstarted", ev |-> 0]]
    /\ lastStep' = "timer"
    /\ runCountry' = NoCountry
    /\ prevEvents' = << >>
    /\ p1Companies' = << >>
    /\ popCount' = << >>
    /\ enrichCalls' = << >>
    /\ enrichResult' = << >>
    /\ enrichFailed' = {}
    /\ UNCHANGED << mounted, probe, storage, uiVars, events, progress, error, searchingId, sync,
                    closureEvents, processQueue, deep, listOutcome, runs, deepStarted >>

(***************************************************************************)
(* handleDeepSearchEvent (App.tsx 178-208)                                 *)
(***************************************************************************)
\* Lines 187-193: the event's list, then the batch entries whose lowercased
\* name no existing company has
DedupAppendNoDedup(companies, more) == companies \o more

DedupAppendCaseSensitive(companies, more) ==
    LET existingNames == { companies[i].name : i \in DOMAIN companies }
        newUnique == SelectSeq(more, LAMBDA c : c.name \notin existingNames)
    IN  companies \o newUnique

DedupPrepend(companies, more) ==
    LET existingNames == { ToLowerCase(companies[i].name) : i \in DOMAIN companies }
        newUnique == SelectSeq(more, LAMBDA c : ToLowerCase(c.name) \notin existingNames)
    IN  newUnique \o companies

DedupAppend(companies, more) ==
    LET existingNames == { ToLowerCase(companies[i].name) : i \in DOMAIN companies }
        newUnique == SelectSeq(more, LAMBDA c : ToLowerCase(c.name) \notin existingNames)
    IN  companies \o newUnique

\* The trigger is rendered for the active country's events and is disabled
\* while searchingId is the event's id (lines 261, 439-452)
DeepStart(k) ==
    /\ Quiet
    /\ k \in DOMAIN events
    /\ events[k].country = activeCountry
    /\ searchingId # events[k].id
    /\ deepStarted' = deepStarted + 1
    /\ searchingId' = events[k].id
    /\ deep' = deep (+) SetToBag({events[k].id})
    /\ UNCHANGED << mounted, storage, uiVars, events, loading, progress, error, sync,
                    runVars, lastStep, histVars, runs >>

StartDeep(k) ==
    /\ deepStarted < MaxDeep
    /\ DeepStart(k)
    /\ UNCHANGED probe

DeepReturn(id, reply) ==
    /\ Quiet
    /\ id \in BagToSet(deep)
    /\ LET r == findExtendedExhibitors(reply)
       IN  IF r.threw
           THEN UNCHANGED << events, storage >>
           ELSE LET updatedEvents ==
                        [k \in DOMAIN events |->
                            IF events[k].id = id
                            THEN [events[k] EXCEPT
                                    !.companies = DedupAppend(events[k].companies, r.companies),
                                    !.ref = 0]
                            ELSE events[k]]
                IN  /\ events' = updatedEvents
                    /\ storage' = Persist(updatedEvents)
    /\ searchingId' = NoId
    /\ deep' = deep (-) SetToBag({id})
    /\ lastStep' = IF findExtendedExhibitors(reply).companies = << >>
                   THEN "deepEmpty" ELSE "deep"
    /\ prevEvents' = << >>
    /\ UNCHANGED << mounted, probe, uiVars, loading, progress, error, sync, runVars, listOutcome,
                    p1Companies, popCount, enrichCalls, enrichResult, enrichFailed, runs, deepStarted >>

Next ==
    \/ Mount
    \/ \E region \in ClickRegions : handleRegionChange(region)
    \/ \E country \in ClickCountries : SelectCountry(country)
    \/ StartSearch
    \/ \E reply \in ListReplies : ListDiscoveryAbort(reply)
    \/ \E reply \in ListReplies : Phase1Merge(reply)
    \/ \E w \in Workers : WorkerRun(w)
    \/ \E w \in Workers, reply \in ShallowReplies : EnrichReturn(w, reply)
    \/ Phase2Merge
    \/ LoadingTimer
    \/ \E k \in 1..Len(events) : StartDeep(k)
    \/ \E id \in BagToSet(deep), reply \in DeepReplies : DeepReturn(id, reply)

Spec == Init /\ [][Next]_vars

(***************************************************************************)
(* The gateway functions and the dedup/append applied on their own, to     *)
(* inputs the initial state draws from the sets above                      *)
(***************************************************************************)
mainVars == << mounted, storage, activeRegion, activeCountry, events, loading,
               progress, error, searchingId, pc, sync, runCountry, closureEvents,
               mergedEvents, processQueue, processedCount, worker, deep,
               lastStep, listOutcome, prevEvents, p1Companies, popCount,
               enrichCalls, enrichResult, enrichFailed, runs, deepStarted >>

\* The calls to make: the function and its arguments
Calls ==
    { [fn |-> "DedupAppend", companies |-> c, more |-> m] :
        c \in CompanyLists, m \in CompanyLists }
    \cup { [fn |-> "enrichEventDetails", reply |-> r] : r \in ShallowReplies }
    \cup { [fn |-> "findExtendedExhibitors", reply |-> r] : r \in DeepReplies }
    \cup { [fn |-> "matchedVenue", country |-> c, item |-> i] :
            c \in MatchCountries, i \in VenueItems }
    \cup { [fn |-> "handleDraft", eventName |-> n, reply |-> r] :
            n \in DraftEventNames, r \in DraftReplies }
    \cup { [fn |-> "generateEventId", base |-> b, other |-> o] :
            b \in BaseRecords, o \in BaseRecords }
    \cup { [fn |-> "handleExportCSV", events |-> e, activeCountry |-> c] :
            e \in ExportCatalogs, c \in {cThailand, cMalaysia} }
    \cup { [fn |-> "venueFilter", country |-> c, other |-> d] :
            c \in MatchCountries, d \in MatchCountries }

Pending(fn) == probe.fn = fn /\ ~Has(probe, "out")

FunctionInit ==
    /\ MainInit
    /\ storage.kind = "absent"
    /\ probe \in Calls

ApplyDedupAppend ==
    /\ Pending("DedupAppend")
    /\ probe' = [fn |-> probe.fn, companies |-> probe.companies, more |-> probe.more,
                 out |-> DedupAppend(probe.companies, probe.more)]
    /\ UNCHANGED mainVars

\* The same batch applied to the result, right after the first application
ApplyDedupAppendAgain ==
    /\ probe.fn = "DedupAppend"
    /\ Has(probe, "out")
    /\ ~Has(probe, "again")
    /\ probe' = [fn |-> probe.fn, companies |-> probe.companies, more |-> probe.more,
                 out |-> probe.out, again |-> DedupAppend(probe.out, probe.more)]
    /\ UNCHANGED mainVars

ApplyEnrichEventDetails ==
    /\ Pending("enrichEventDetails")
    /\ probe' = [fn |-> probe.fn, reply |-> probe.reply,
                 out |-> enrichEventDetails(probe.reply)]
    /\ UNCHANGED mainVars

ApplyFindExtendedExhibitors ==
    /\ Pending("findExtendedExhibitors")
    /\ probe' = [fn |-> probe.fn, reply |-> probe.reply,
                 out |-> findExtendedExhibitors(probe.reply)]
    /\ UNCHANGED mainVars

ApplyMatchedVenue ==
    /\ Pending("matchedVenue")
    /\ probe' = [fn |-> probe.fn, country |-> probe.country, item |-> probe.item,
                 out |-> matchedVenue(probe.country, probe.item)]
    /\ UNCHANGED mainVars

\* EmailModal.handleDraft: the draft is shown, or the rejection is caught and
\* alerted and subject and body stay as they were ("")
handleDraft ==
    /\ Pending("handleDraft")
    /\ LET result == draftEmailContent(probe.eventName, probe.reply)
       IN  probe' = [fn |-> probe.fn, eventName |-> probe.eventName,
                     reply |-> probe.reply,
                     out |-> result,
                     subject |-> IF result.threw THEN << >> ELSE result.subject,
                     body |-> IF result.threw THEN << >> ELSE result.body,
                     hasGenerated |-> ~result.threw,
                     alerted |-> result.threw]
    /\ UNCHANGED mainVars

\* The venue filter of searchEventList, run for two searches
ApplyVenueFilter ==
    /\ Pending("venueFilter")
    /\ probe' = [fn |-> probe.fn, country |-> probe.country, other |-> probe.other,
                 out |-> [venues |-> VenuesFor(probe.country),
                          otherVenues |-> VenuesFor(probe.other)]]
    /\ UNCHANGED mainVars

\* The id given to two records of a list (App.tsx 106-112)
ApplyGenerateEventId ==
    /\ Pending("generateEventId")
    /\ probe' = [fn |-> probe.fn, base |-> probe.base, other |-> probe.other,
                 out |-> [id |-> MergeFresh(probe.base, << >>, 1).id,
                          otherId |-> MergeFresh(probe.other, << >>, 1).id]]
    /\ UNCHANGED mainVars

ApplyHandleExportCSV ==
    /\ Pending("handleExportCSV")
    /\ probe' = [fn |-> probe.fn, events |-> probe.events,
                 activeCountry |-> probe.activeCountry,
                 out |-> handleExportCSV(probe.events, probe.activeCountry)]
    /\ UNCHANGED mainVars

FunctionNext ==
    \/ ApplyDedupAppend
    \/ ApplyDedupAppendAgain
    \/ ApplyEnrichEventDetails
    \/ ApplyFindExtendedExhibitors
    \/ ApplyMatchedVenue
    \/ handleDraft
    \/ ApplyVenueFilter
    \/ ApplyGenerateEventId
    \/ ApplyHandleExportCSV

FunctionSpec == FunctionInit /\ [][FunctionNext]_vars

(***************************************************************************)
(* Region and country selection over the whole taxonomy, with discovery    *)
(* runs that start and fail; probe holds the last region handled           *)
(***************************************************************************)
RegionCall(region) ==
    /\ region \in Range(Regions)
    /\ RegionChange(region)
    /\ probe' = [fn |-> "handleRegionChange", region |-> region, loading |-> loading]

CountryCall(country) ==
    /\ CountryChange(country)
    /\ probe' = [fn |-> "setActiveCountry", country |-> country]

SelectionNext ==
    \/ Mount
    \/ \E region \in Range(Regions) : RegionCall(region)
    \/ \E country \in MatchCountries : CountryCall(country)
    \/ StartSearch
    \/ \E reply \in ListReplies : ListDiscoveryAbort(reply)

SelectionSpec == Init /\ [][SelectionNext]_vars

(***************************************************************************)
(* Discovery runs one after another with no other operation. Every         *)
(* backend call returns or fails, and the event loop runs every ready      *)
(* continuation and the timer that ends the run                            *)
(***************************************************************************)
\* await Promise.all(workers) resumes: the step Phase2Merge makes, named by
\* what it does to the task position
JoinResumes == sync = JoinTask /\ sync' = NoTask

StartSearchAgain ==
    /\ runs < MaxRunsAlone
    /\ handleSearch

RunNext ==
    \/ Mount
    \/ StartSearchAgain
    \/ \E reply \in ListReplies : ListDiscoveryAbort(reply)
    \/ \E reply \in ListReplies : Phase1Merge(reply)
    \/ \E w \in Workers : WorkerRun(w)
    \/ \E w \in Workers, reply \in ShallowReplies : EnrichReturn(w, reply)
    \/ Phase2Merge
    \/ LoadingTimer

RunFairSpec ==
    /\ Init
    /\ [][RunNext]_vars
    /\ WF_vars(\E reply \in ListReplies : ListDiscoveryAbort(reply) \/ Phase1Merge(reply))
    /\ WF_vars(\E w \in Workers : WorkerRun(w))
    /\ WF_vars(\E w \in Workers, reply \in ShallowReplies : EnrichReturn(w, reply))
    /\ WF_sync(JoinResumes)
    /\ WF_vars(LoadingTimer)

(***************************************************************************)
(* Deep searches on the loaded catalog, several in flight at once, with no *)
(* discovery run                                                           *)
(***************************************************************************)
StartDeepAlone(k) ==
    /\ deepStarted < MaxDeepAlone
    /\ DeepStart(k)
    /\ UNCHANGED probe

DeepNext ==
    \/ Mount
    \/ \E country \in ClickCountries : SelectCountry(country)
    \/ \E k \in 1..Len(events) : StartDeepAlone(k)
    \/ \E id \in BagToSet(deep), reply \in DeepReplies : DeepReturn(id, reply)

DeepSpec == Init /\ [][DeepNext]_vars

(***************************************************************************)
(* Properties                                                              *)
(***************************************************************************)
Catalog == Json(events)
Fresh == Json(mergedEvents)

AfterPhase1 == lastStep = "phase1"
AfterPhase2 == lastStep = "phase2"
AfterMerge == AfterPhase1 \/ AfterPhase2

OfCountry(evs, c) == SelectSeq(evs, LAMBDA e : e.country = c)
NotOfCountry(evs, c) == SelectSeq(evs, LAMBDA e : e.country # c)

SameEntries(a, b) ==
    \A x \in Range(a) \cup Range(b) : Count(a, x) = Count(b, x)

\* a's start date is after b's (both parse)
StartsAfter(a, b) ==
    /\ IsValidDate(a.dateStart) /\ IsValidDate(b.dateStart)
    /\ GetTime(a.dateStart) > GetTime(b.dateStart)

\* C1: in every reachable state the catalog holds at most one event per id.
C1_OneEventPerId ==
    \A i, j \in DOMAIN events : i # j => events[i].id # events[j].id

\* C2: immediately after the Phase 1 merge and after the Phase 2 merge, no
\* catalog entry starts after the entry that follows it.
C2_SortedAfterMerge ==
    AfterMerge =>
        \A k \in 1..(Len(events) - 1) : ~StartsAfter(events[k], events[k + 1])

\* The fresh set arrived out of order and other countries' entries are present
C2_Witness ==
    /\ AfterMerge
    /\ Len(events) > Len(mergedEvents)
    /\ \E a, b \in DOMAIN mergedEvents :
          a < b /\ StartsAfter(mergedEvents[a], mergedEvents[b])

\* C3: after Phase 1 a fresh event has isNew = FALSE exactly when its id was
\* in the catalog immediately before the merge, in the fresh set and in the
\* catalog entry made of it.
C3_IsNewAfterPhase1 ==
    AfterPhase1 =>
        /\ \A i \in DOMAIN mergedEvents :
              mergedEvents[i].isNew = (mergedEvents[i].id \notin Ids(prevEvents))
        /\ \A k \in DOMAIN events :
              events[k].ref > 0 =>
                  events[k].isNew = (events[k].id \notin Ids(prevEvents))

C3_Witness ==
    /\ AfterPhase1
    /\ \E i \in DOMAIN mergedEvents : mergedEvents[i].isNew
    /\ \E i \in DOMAIN mergedEvents : ~mergedEvents[i].isNew

\* C4: after Phase 1 a fresh event whose id the catalog held immediately
\* before the merge has the companies list the catalog held for that id
\* then, and every other fresh event has an empty list.
C4_CarriesLatestCompanies ==
    AfterPhase1 =>
        \A i \in DOMAIN mergedEvents :
            IF mergedEvents[i].id \in Ids(prevEvents)
            THEN \E k \in DOMAIN prevEvents :
                    /\ prevEvents[k].id = mergedEvents[i].id
                    /\ prevEvents[k].companies = mergedEvents[i].companies
            ELSE mergedEvents[i].companies = << >>

\* C5: after either merge the catalog entries of the run's country are
\* exactly the fresh events.
C5_CountryReplaced ==
    AfterMerge => SameEntries(OfCountry(Catalog, runCountry), Fresh)

\* A stored event of the country that discovery did not report again
C5_Witness ==
    /\ AfterPhase1
    /\ \E k \in DOMAIN prevEvents :
          /\ prevEvents[k].country = runCountry
          /\ prevEvents[k].id \notin Ids(mergedEvents)

\* C6: after either merge the entries of the other countries are the ones
\* the catalog held immediately before that merge, with all their fields.
C6_OtherCountriesKept ==
    AfterMerge =>
        SameEntries(NotOfCountry(Catalog, runCountry), NotOfCountry(prevEvents, runCountry))

C6_Witness ==
    /\ AfterPhase2
    /\ \E k \in DOMAIN events :
          events[k].country # runCountry /\ Len(events[k].companies) > 0

\* C7: when list discovery fails or returns nothing, the step that ends the
\* wait leaves the catalog and the blob as they were, starts no worker and no
\* enrichment, sets the error and clears loading.
C7_AbortLeavesCatalog ==
    [][ (pc = "awaitList" /\ pc' # "awaitList" /\ listOutcome' \in {"threw", "empty"}) =>
          /\ events' = events
          /\ storage' = storage
          /\ error' # "null"
          /\ loading' = FALSE
          /\ pc' = "idle"
          /\ mergedEvents' = << >>
          /\ enrichCalls' = << >>
          /\ \A w \in Workers : worker'[w].st = "unstarted" ]_vars

C7_Witness ==
    /\ lastStep = "abort"
    /\ listOutcome \in {"threw", "empty"}
    /\ Len(events) > 0
    /\ storage.kind = "array"

\* Calls of shallow enrichment made for an id in the run
CallsForId(id) ==
    LET idx == { i \in DOMAIN mergedEvents : mergedEvents[i].id = id }
        RECURSIVE Sum(_)
        Sum(S) == IF S = {} THEN 0
                  ELSE LET i == CHOOSE i \in S : TRUE
                       IN  enrichCalls[i] + Sum(S \ {i})
    IN  Sum(idx)

\* C8: within a run no event is popped twice and shallow enrichment is
\* invoked at most once per event id.
C8_OncePerEventId ==
    /\ \A i \in DOMAIN popCount : popCount[i] <= 1
    /\ \A i \in DOMAIN enrichCalls : CallsForId(mergedEvents[i].id) <= 1

C10_FailedState ==
    enrichFailed # {} =>
        /\ \A e \in enrichFailed : mergedEvents[e].companies = << >>
        /\ error = "null"
        /\ loading
        /\ pc \in {"enriching", "done"}
        /\ pc = "enriching" =>
              \/ sync # NoTask
              \/ \E w \in Workers : worker[w].st = "awaiting"
        /\ AfterPhase2 =>
              /\ \A i \in DOMAIN popCount : popCount[i] = 1
              /\ processedCount = Len(mergedEvents)
              /\ storage.kind = "array"
              /\ \A i \in DOMAIN mergedEvents :
                    \E k \in DOMAIN storage.value : storage.value[k] = Fresh[i]

C10_FailureTolerated ==
    /\ [] C10_FailedState
    /\ [][ (enrichFailed # {} /\ pc = "enriching") => pc' \in {"enriching", "done"} ]_vars

\* One event failed, another was enriched, and Phase 2 has run
C10_Witness ==
    /\ AfterPhase2
    /\ enrichFailed # {}
    /\ \E i \in DOMAIN mergedEvents :
          i \notin enrichFailed /\ enrichCalls[i] = 1 /\ Len(mergedEvents[i].companies) > 0

\* The step is the Phase 1 / the Phase 2 catalog write of a run
Phase1Step == lastStep # "phase1" /\ lastStep' = "phase1"
Phase2Step == lastStep # "phase2" /\ lastStep' = "phase2"

\* C11: the Phase 2 write is made only from the enrichment phase, which only
\* the Phase 1 write of the same run enters, and only when the queue is
\* empty, every worker has terminated and no enrichment call is in flight.
C11_Phase2AfterJoin ==
    [][ /\ Phase1Step => (pc = "awaitList" /\ pc' = "enriching")
        /\ (pc # "enriching" /\ pc' = "enriching") => Phase1Step
        /\ Phase2Step =>
              /\ pc = "enriching" /\ pc' = "done"
              /\ runs' = runs
              /\ processQueue = << >>
              /\ \A w \in Workers : worker[w].st = "done"
      ]_vars

\* Phase 2 has run after three enrichment calls were in flight
C11_Witness ==
    /\ AfterPhase2
    /\ Len(mergedEvents) >= concurrency
    /\ \A i \in DOMAIN enrichCalls : enrichCalls[i] = 1

\* Progress values as fractions << numerator, denominator >>
FracLeq(a, b) == a[1] * b[2] <= b[1] * a[2]

\* The scheduler has completed: Promise.all is about to resume
SchedulerCompleted ==
    /\ sync = JoinTask
    /\ \A w \in Workers : worker[w].st = "done"
    /\ processQueue = << >>
    /\ \A i \in DOMAIN mergedEvents : popCount[i] = 1
    /\ processedCount = Len(mergedEvents)
    /\ progress = << 100, 1 >>

\* C12: when every enrichment call returns, a run that has entered the
\* enrichment phase reaches completion: all workers terminated, the queue
\* empty, every event popped once, processedCount the total and progress 100.
C12_SchedulerCompletes ==
    (pc = "enriching") ~> SchedulerCompleted

C12_Witness ==
    /\ SchedulerCompleted
    /\ Len(mergedEvents) >= 2
    /\ enrichFailed # {}

\* C13: within a run progress never decreases; it is 0 while list discovery
\* is awaited, 20 right after Phase 1 and 20 + 80 * processedCount / total
\* once an event has been processed.
C13_ProgressState ==
    /\ pc = "awaitList" => progress = << 0, 1 >>
    /\ AfterPhase1 => progress = << 20, 1 >>
    /\ (pc \in {"enriching", "done"} /\ processedCount > 0) =>
          progress[1] * Len(mergedEvents)
              = ((20 * Len(mergedEvents)) + (80 * processedCount)) * progress[2]

C13_ProgressMonotone ==
    /\ [] C13_ProgressState
    /\ [][ runs' = runs => FracLeq(progress, progress') ]_vars

\* Progress strictly between 20 and 100 has been reported
C13_Witness ==
    /\ pc = "enriching"
    /\ FracLeq(<< 21, 1 >>, progress)
    /\ FracLeq(progress, << 99, 1 >>)

\* The event loop runs every continuation that is ready (WorkerRun); each
\* enrichment call returns (EnrichReturn).
FairSpec ==
    /\ Spec
    /\ WF_vars(\E w \in Workers : WorkerRun(w))
    /\ WF_vars(\E w \in Workers, reply \in ShallowReplies : EnrichReturn(w, reply))

\* C14: after a run that no other operation interleaved, the blob holds for
\* every fresh event the list the catalog held for its id if that list was
\* non-empty (and the event was not enriched), and otherwise what its one
\* enrichment call returned.
C14_PersistedCompanies ==
    deepStarted = 0 =>
        /\ AfterPhase1 =>
              \A i \in DOMAIN mergedEvents :
                  LET had == { k \in DOMAIN prevEvents :
                                  /\ prevEvents[k].id = mergedEvents[i].id
                                  /\ Len(prevEvents[k].companies) > 0 }
                  IN  IF had # {}
                      THEN \A k \in had : mergedEvents[i].companies = prevEvents[k].companies
                      ELSE mergedEvents[i].companies = << >>
        /\ AfterPhase2 =>
              /\ storage.kind = "array"
              /\ \A i \in DOMAIN mergedEvents :
                    /\ \E k \in DOMAIN storage.value : storage.value[k] = Fresh[i]
                    /\ IF Len(p1Companies[i]) > 0
                       THEN /\ enrichCalls[i] = 0
                            /\ mergedEvents[i].companies = p1Companies[i]
                       ELSE /\ enrichCalls[i] = 1
                            /\ mergedEvents[i].companies = enrichResult[i]

\* The function has been applied to the drawn arguments
Applied(fn) == probe.fn = fn /\ Has(probe, "out")

Names(companies) == [i \in DOMAIN companies |-> companies[i].name]

\* The batch positions whose lowercased name no existing company has
KeptPositions(companies, more) ==
    { j \in DOMAIN more :
        \A i \in DOMAIN companies :
            ToLowerCase(more[j].name) # ToLowerCase(companies[i].name) }

\* C15: dedup/append gives the existing list followed by exactly the batch
\* entries, in batch order, whose lowercased name equals no existing
\* company's; duplicates inside the batch are kept; [Acme] with
\* [acme, Beta] gives [Acme, Beta].
C15_DedupAppend ==
    Applied("DedupAppend") =>
        LET companies == probe.companies
            more == probe.more
            out == probe.out
            kept == KeptPositions(companies, more)
            Nth(r) == CHOOSE j \in kept : Cardinality({ x \in kept : x < j }) = r - 1
        IN  /\ Len(out) = Len(companies) + Cardinality(kept)
            /\ \A i \in DOMAIN companies : out[i] = companies[i]
            /\ \A r \in 1..Cardinality(kept) : out[Len(companies) + r] = more[Nth(r)]
            /\ (Names(companies) = << sAcme >> /\ Names(more) = << sacme, sBeta >>)
                  => Names(out) = << sAcme, sBeta >>

\* The example of the specification, and a batch that repeats a new name
C15_Witness ==
    /\ Applied("DedupAppend")
    /\ Names(probe.companies) = << sAcme >>
    /\ Names(probe.more) \in { << sacme, sBeta >>, << sBeta, sBeta >> }
    /\ Len(probe.out) = Len(probe.more)

\* The step is the return of a deep search, for the event id
DeepStep(id) == CopiesIn(id, deep') < CopiesIn(id, deep)

IsPrefix(a, b) == Len(a) <= Len(b) /\ SubSeq(b, 1, Len(a)) = a

\* C16: the return of a deep search keeps the events and their order; the
\* target's previous companies list is a prefix of its new one, every other
\* event is unchanged, and with an empty batch (a backend failure included)
\* the catalog is unchanged.
C16_DeepAppendFrame ==
    [][ \A id \in BagToSet(deep) :
          DeepStep(id) =>
              /\ Len(events') = Len(events)
              /\ \A k \in DOMAIN events :
                    /\ \A f \in (DOMAIN Catalog[k]) \ {"companies"} :
                          Catalog'[k][f] = Catalog[k][f]
                    /\ IsPrefix(events[k].companies, events'[k].companies)
                    /\ events[k].id # id => events'[k] = events[k]
              /\ lastStep' = "deepEmpty" => Catalog' = Catalog
      ]_vars

\* A deep search has appended to an event that had companies, with another
\* event in the catalog
C16_Witness ==
    /\ lastStep = "deep"
    /\ Len(events) >= 2
    /\ \E k \in DOMAIN events :
          /\ Len(events[k].companies) >= 2
          /\ events[k].companies[1].role = "Exhibitor"
          /\ events[k].companies[2].name = sacme

\* C17: shallow and deep enrichment give a sequence of companies for every
\* backend outcome and when the credentials are missing; no failure reaches
\* the caller.
C17_EnrichmentNeverThrows ==
    (Applied("enrichEventDetails") \/ Applied("findExtendedExhibitors")) =>
        /\ ~probe.out.threw
        /\ probe.reply.tag # "Ok" => probe.out.companies = << >>

\* C18: email drafting gives a non-empty subject and a non-empty body for
\* every backend outcome and when the credentials are missing; no error
\* reaches the caller.
C18_DraftAlwaysReturns ==
    Applied("handleDraft") =>
        /\ ~probe.out.threw
        /\ probe.subject # << >>
        /\ probe.body # << >>

\* The draft call failed or its payload could not be parsed
DraftFailed == probe.reply.tag \in {"BackendError", "Malformed", "Null"}

FirstWordOccurs(v, text) ==
    LET low == ToLowerCase(v)
        word == IF \E k \in DOMAIN low : low[k] = " "
                THEN SubSeq(low, 1, (CHOOSE k \in DOMAIN low :
                                        low[k] = " " /\ \A j \in 1..(k - 1) : low[j] # " ") - 1)
                ELSE low
        t == ToLowerCase(text)
    IN  \E o \in 0..(Len(t) - Len(word)) :
            \A j \in 1..Len(word) : t[o + j] = word[j]

\* C20: the matched venue is the first valid venue of the country whose
\* name's first word occurs, case-insensitively, in the venue text, and the
\* country's first valid venue when there is none or no text; it is always a
\* venue valid for the country; Thailand with "BITEC Bangna Hall 5" gives
\* "BITEC Bangna".
C20_VenueRematch ==
    Applied("matchedVenue") =>
        LET valid == VenuesFor(probe.country)
            text == IF Has(probe.item, "venueName") THEN probe.item.venueName ELSE << >>
            hits == { k \in DOMAIN valid : text # << >> /\ FirstWordOccurs(valid[k], text) }
        IN  /\ Len(valid) > 0
            /\ \E k \in DOMAIN valid : probe.out = valid[k]
            /\ IF hits = {}
               THEN probe.out = valid[1]
               ELSE probe.out = valid[CHOOSE k \in hits : \A j \in hits : k <= j]
            /\ (probe.country = Thailand /\ text = vtBitecHall) => probe.out = VenueBitec

\* A text that holds the first words of two valid venues, matched to one
\* that is not the country's first
C20_Witness ==
    /\ Applied("matchedVenue")
    /\ probe.country = Malaysia
    /\ Has(probe.item, "venueName")
    /\ probe.item.venueName = vtPenangSetia
    /\ probe.out = VenueSpice

\* C21: the venue filter gives every country a non-empty set of venues, and
\* no venue is in the sets of two different countries.
C21_VenueOneCountry ==
    Applied("venueFilter") =>
        /\ probe.out.venues # << >>
        /\ probe.country # probe.other =>
              Range(probe.out.venues) \cap Range(probe.out.otherVenues) = {}

\* lowercase(trim(name))
NormalizedName(name) == Trim(ToLowerCase(name))

\* C22: two records whose names are equal after lower-casing and trimming and
\* whose start dates are equal get the same id, whatever their other fields.
C22_IdDeterministic ==
    (/\ Applied("generateEventId")
     /\ NormalizedName(probe.base.name) = NormalizedName(probe.other.name)
     /\ probe.base.dateStart = probe.other.dateStart)
    => probe.out.id = probe.out.otherId

\* "Ab" in Thailand and "ab " in Malaysia on the same start date
C22_Witness ==
    /\ Applied("generateEventId")
    /\ probe.base.name = sAb
    /\ probe.other.name = sAbVariant
    /\ probe.base.country # probe.other.country
    /\ probe.base.dateStart = d2025
    /\ probe.other.dateStart = d2025
    /\ probe.out.id = probe.out.otherId

\* C23: two records that differ in the normalized name or in the start date
\* get different ids.
C23_IdCollisionFree ==
    (/\ Applied("generateEventId")
     /\ \/ NormalizedName(probe.base.name) # NormalizedName(probe.other.name)
        \/ probe.base.dateStart # probe.other.dateStart)
    => probe.out.id # probe.out.otherId

AbortStep == pc = "awaitList" /\ lastStep' = "abort"

\* C24: the blob changes only at a Phase 2 merge and at the return of a deep
\* search; after a Phase 2 merge and after a deep-search append it is the
\* array that equals the catalog in memory; Phase 1 and a failed discovery
\* run leave it as it was.
C24_PersistedAtWrites ==
    [][ /\ storage' # storage =>
              (Phase2Step \/ \E id \in BagToSet(deep) : DeepStep(id))
        /\ Phase2Step => (storage'.kind = "array" /\ storage'.value = Catalog')
        /\ (lastStep' = "deep" /\ \E id \in BagToSet(deep) : DeepStep(id)) =>
              (storage'.kind = "array" /\ storage'.value = Catalog')
        /\ (Phase1Step \/ AbortStep) => storage' = storage
      ]_vars

\* A deep search has appended after a completed run, to a catalog that then
\* differs from what the page loaded
C24_Witness ==
    /\ lastStep = "deep"
    /\ runs = 1
    /\ pc = "idle"
    /\ storage.kind = "array"
    /\ storage.value = Catalog
    /\ \E k \in DOMAIN events : Len(events[k].companies) > 1

AfterMount == lastStep = "mount"

\* C25: after the page has loaded, the catalog is empty when the blob is
\* missing, is no JSON or is no array, and is the stored array otherwise;
\* loading never fails.
C25_StartupLoad ==
    AfterMount =>
        /\ mounted
        /\ error = "null"
        /\ storage.kind \in {"absent", "corrupt", "object"} => events = << >>
        /\ storage.kind = "array" => Catalog = storage.value

\* The page has loaded over a blob that is no JSON
C25_Witness ==
    /\ AfterMount
    /\ storage.kind = "corrupt"
    /\ events = << >>

RegionStep == probe' # probe /\ probe'.fn = "handleRegionChange"

\* C26: handling an empty region leaves the active region and country as they
\* were; handling a non-empty region (its button is enabled: no run is
\* loading) makes it the active region and its first country the active
\* country; the active country always belongs to the active region.
C26_RegionSelection ==
    /\ [](\E k \in DOMAIN REGION_MAPPING(activeRegion) :
            activeCountry = REGION_MAPPING(activeRegion)[k])
    /\ [][ RegionStep =>
              IF Len(REGION_MAPPING(probe'.region)) = 0
              THEN UNCHANGED uiVars
              ELSE IF loading
              THEN UNCHANGED uiVars
              ELSE /\ activeRegion' = probe'.region
                   /\ activeCountry' = REGION_MAPPING(probe'.region)[1]
      ]_vars

\* Europe was selected and its first country became the active country
C26_Witness ==
    /\ probe.fn = "handleRegionChange"
    /\ probe.region = "Europe"
    /\ activeRegion = "Europe"
    /\ activeCountry = Germany

\* The roles of a Company
Roles == { "Organizer", "Exhibitor", "Partner", "Sponsor", "Partner/Sponsor" }

\* C27: every company of every event in the catalog has a name and a role
\* that is Organizer, Exhibitor or Partner/Sponsor.
C27_CompanyWellFormed ==
    \A k \in DOMAIN events : \A i \in DOMAIN events[k].companies :
        /\ Has(events[k].companies[i], "name")
        /\ events[k].companies[i].name # << >>
        /\ events[k].companies[i].role \in Roles

\* The records and fields a CSV reader finds in a text: a position is inside
\* quotes when an odd number of quotes precedes it; a line break outside
\* quotes ends a record and a "," outside quotes ends a field; a quoted field
\* is read without its outer quotes and with each doubled quote as one
QuotesBefore(s, i) == Cardinality({ j \in 1..(i - 1) : s[j] = "\"" })

Pieces(s, sep) ==
    LET breaks == { i \in DOMAIN s : s[i] = sep /\ QuotesBefore(s, i) % 2 = 0 }
        n == Cardinality(breaks)
        At(m) == IF m = 0 THEN 0
                 ELSE IF m = n + 1 THEN Len(s) + 1
                 ELSE CHOOSE i \in breaks : Cardinality({ x \in breaks : x <= i }) = m
    IN  [m \in 1..(n + 1) |-> SubSeq(s, At(m - 1) + 1, At(m) - 1)]

Unquote(f) ==
    IF Len(f) >= 2 /\ f[1] = "\"" /\ f[Len(f)] = "\""
    THEN LET c == SubSeq(f, 2, Len(f) - 1)
             kept == { j \in DOMAIN c : c[j] # "\"" \/ QuotesBefore(c, j + 1) % 2 = 1 }
         IN  [m \in 1..Cardinality(kept) |->
                c[CHOOSE j \in kept : Cardinality({ x \in kept : x <= j }) = m]]
    ELSE f

ParseCsv(text) ==
    LET records == Pieces(text, "\n")
    IN  [r \in DOMAIN records |->
            LET fields == Pieces(records[r], ",")
            IN  [k \in DOMAIN fields |-> Unquote(fields[k])]]

RowsOf(event) == IF Len(event.companies) = 0 THEN 1 ELSE Len(event.companies)

RECURSIVE RowsBefore(_, _)
RowsBefore(evs, k) == IF k = 1 THEN 0 ELSE RowsBefore(evs, k - 1) + RowsOf(evs[k - 1])

tNAText == << "N", "/", "A" >>

\* C28: the export of the active country's events has, after the header, one
\* record per company of each event and one record with N/A in the four
\* company columns for each event without companies, in the events' order;
\* every record of an event starts with the event's five descriptive values.
C28_ExportRows ==
    Applied("handleExportCSV") =>
        LET exported == OfCountry(probe.events, probe.activeCountry)
            total == RowsBefore(exported, Len(exported) + 1)
        IN  IF Len(exported) = 0
            THEN probe.out.alerted /\ probe.out.rows = << >>
            ELSE LET records == ParseCsv(probe.out.csvContent)
                 IN  /\ ~probe.out.alerted
                     /\ Len(probe.out.rows) = total
                     /\ Len(records) = total + 1
                     /\ records[1] = headers
                     /\ \A k \in DOMAIN exported : \A j \in 1..RowsOf(exported[k]) :
                           LET record == records[1 + RowsBefore(exported, k) + j]
                               e == exported[k]
                           IN  /\ Len(record) = 9
                               /\ SubSeq(record, 1, 5) =
                                     << e.name, e.venue, e.dateStart, e.dateEnd, e.country >>
                               /\ IF Len(e.companies) = 0
                                  THEN SubSeq(record, 6, 9) = << tNAText, tNAText, tNAText, tNAText >>
                                  ELSE SubSeq(record, 6, 9) =
                                         << Field(e.companies[j], "name"), Field(e.companies[j], "role"),
                                            Field(e.companies[j], "email"), Field(e.companies[j], "contact") >>

\* An event without companies and an event with two companies, exported in
\* three rows
C28_Witness ==
    /\ Applied("handleExportCSV")
    /\ Len(probe.events) = 2
    /\ Len(probe.events[1].companies) = 0
    /\ Len(probe.events[2].companies) = 2
    /\ probe.events[1].country = probe.activeCountry
    /\ probe.events[2].country = probe.activeCountry
    /\ Len(probe.out.rows) = 3

\* The entries of the catalog with the id
WithId(evs, id) == { k \in DOMAIN evs : evs[k].id = id }

\* C29: at the Phase 2 merge of a run, every company that an event of the
\* run's fresh set holds in the catalog (those a deep search appended since
\* Phase 1 included) is still in that event's list afterwards.
C29_AppendSurvivesPhase2 ==
    [][ Phase2Step =>
          \A k \in DOMAIN events :
              (events[k].country = runCountry /\ events[k].id \in Ids(mergedEvents)) =>
                  \A i \in DOMAIN events[k].companies :
                      \E k2 \in WithId(events', events[k].id) :
                          \E i2 \in DOMAIN events'[k2].companies :
                              events'[k2].companies[i2] = events[k].companies[i]
      ]_vars

LowerNames(companies) == { ToLowerCase(companies[i].name) : i \in DOMAIN companies }

\* The batches a deep search that appended something can have returned
Batches ==
    { findExtendedExhibitors(reply).companies : reply \in DeepReplies } \ { << >> }

\* C30: each return of a deep search appends to the target's list as it is
\* at that moment: the list before (an append applied earlier included) is
\* kept as a prefix, the entries added have lowercased names the list did
\* not hold, every name of the batch is in the list afterwards, and the
\* other events are unchanged, whatever else is in flight.
C30_AppendOnCurrentSnapshot ==
    [][ \A id \in BagToSet(deep) :
          DeepStep(id) =>
              /\ \A k \in DOMAIN events : events[k].id # id => events'[k] = events[k]
              /\ \A k \in WithId(events, id) :
                    LET old == events[k].companies
                        new == events'[k].companies
                    IN  /\ IsPrefix(old, new)
                        /\ \A i \in (Len(old) + 1)..Len(new) :
                              /\ ToLowerCase(new[i].name) \notin LowerNames(old)
                              /\ \E batch \in Batches : \E j \in DOMAIN batch : batch[j] = new[i]
                        /\ lastStep' = "deep" =>
                              \E batch \in Batches : LowerNames(batch) \subseteq LowerNames(new)
      ]_vars

\* Three deep searches were started and two have returned, the second while
\* another was in flight: two events of different ids hold the batch (each
\* name once), and a further deep search on one of them is still in flight
C30_Witness ==
    /\ deepStarted = 3
    /\ BagCardinality(deep) = 1
    /\ searchingId = NoId
    /\ lastStep = "deep"
    /\ \E k, k2 \in DOMAIN events :
          /\ events[k].id # events[k2].id
          /\ events[k].id \in BagToSet(deep)
          /\ LowerNames(events[k].companies) = { sacme, ToLowerCase(sBeta) }
          /\ Len(events[k].companies) = 2
          /\ LowerNames(events[k2].companies) = { sacme, ToLowerCase(sBeta) }
          /\ Len(events[k2].companies) = 2

\* The fresh events that Phase 1 left without companies
EmptyAtPhase1 == { i \in DOMAIN p1Companies : p1Companies[i] = << >> }

\* C31: right after Phase 1 the work queue holds exactly the fresh events
\* whose companies list is empty, and the progress fraction of the run is
\* 20 + 80 * processed / (the number of those events).
C31_QueueSeededWithEmpty ==
    /\ AfterPhase1 => Range(processQueue) = EmptyAtPhase1
    /\ (pc = "enriching" /\ processedCount > 0 /\ EmptyAtPhase1 # {}) =>
          progress = Fraction(processedCount, Cardinality(EmptyAtPhase1))

Awaiting == { w \in DOMAIN worker : worker[w].st = "awaiting" }
Started == { w \in DOMAIN worker : worker[w].st # "unstarted" }

C34_TriggerDisabledInFlight ==
    \A id \in BagToSet(deep) :
        /\ searchingId = id
        /\ CopiesIn(id, deep) <= 1

\* C35: every discovery run that starts ends with loading false. It ends
\* either at the catch, with an error set and the catalog and the blob as they
\* were when the run started, or at the timer after Phase 2, with no error
\* and the blob holding the Phase 2 catalog; the start of a run clears the
\* error.
C35_RunEnds ==
    /\ loading ~> ~loading
    /\ [][ /\ (loading /\ ~loading') =>
                 \/ /\ error' # "null"
                    /\ events' = closureEvents
                    /\ UNCHANGED << events, storage >>
                 \/ /\ error' = "null"
                    /\ pc = "done"
                    /\ storage' = Persist(events')
           /\ runs' # runs => (loading' /\ error' = "null")
      ]_vars

\* Two runs have ended at the catch, the second started while the error of
\* the first was shown: the error is set, nothing was loaded or written
C35_Witness ==
    /\ runs = 2
    /\ ~loading
    /\ lastStep = "abort"
    /\ error # "null"
    /\ storage.kind = "absent"
    /\ events = << >>

\* C36: a batch applied to an event's companies a second time, right after
\* the first, appends nothing: the list is the one the first application
\* left.
C36_DedupIdempotent ==
    (probe.fn = "DedupAppend" /\ Has(probe, "again")) => probe.again = probe.out

\* The batch of two entries whose names differ in case only, applied twice to
\* a list that has neither: both were appended the first time, none the second
C36_Witness ==
    /\ probe.fn = "DedupAppend"
    /\ Has(probe, "again")
    /\ Len(probe.more) = 2
    /\ LowerNames(probe.more) = { sacme }
    /\ sacme \notin LowerNames(probe.companies)
    /\ Len(probe.out) = Len(probe.companies) + 2
    /\ Len(probe.again) = Len(probe.out)

=============================================================================
